---- MODULE Spec2Model ----
(***************************************************************************)
(* crawllm: a breadth-first website crawler that converts every page to    *)
(* Markdown and writes one combined file.                                  *)
(*                                                                         *)
(* Two variants of the crawler are modelled side by side:                  *)
(*   "index"   - src/index.ts          (host + path scope, www-insensitive,*)
(*               links are read before the tree is cleaned, strict cleaner)*)
(*   "part000" - src/unnamed/part_000  (host scope, exact match, the tree  *)
(*               is cleaned before links are read, loose cleaner)          *)
(*                                                                         *)
(* Strings are sequences of tokens.  A token is an atom of text: the       *)
(* separators "/", ".", "?", "#" are always tokens of their own, so that   *)
(* prefix, suffix and substring tests on token sequences coincide with the *)
(* same tests on the text.                                                 *)
(***************************************************************************)
EXTENDS Integers, Sequences, FiniteSets, TLC

\* ------------------------------------------------------------------ bounds
\* The site answers the first MaxPages requests of a crawl in any way it
\* likes; every later request is answered with an HTTP error.
MaxPages == 3

\* ----------------------------------------------------------------- strings
Range(s) == {s[i] : i \in 1..Len(s)}

Last(s) == s[Len(s)]

StartsWith(s, pre) ==
    /\ Len(pre) <= Len(s)
    /\ SubSeq(s, 1, Len(pre)) = pre

\* Index of the first token of s that lies in set, Len(s)+1 when there is none.
IndexOfAny(s, set) ==
    IF \E i \in 1..Len(s) : s[i] \in set
    THEN CHOOSE i \in 1..Len(s) :
            /\ s[i] \in set
            /\ \A j \in 1..(i-1) : s[j] \notin set
    ELSE Len(s) + 1

\* Index of the last token of s equal to t, 0 when there is none.
LastIndexOf(s, t) ==
    IF \E i \in 1..Len(s) : s[i] = t
    THEN CHOOSE i \in 1..Len(s) :
            /\ s[i] = t
            /\ \A j \in (i+1)..Len(s) : s[j] # t
    ELSE 0

\* String.prototype.replace(pat, '') with a string pattern: the first
\* occurrence of pat, wherever it is, is removed; nothing else is.
ReplaceFirst(s, pat) ==
    LET n == Len(pat)
        hits == {i \in 1..(Len(s) - n + 1) : SubSeq(s, i, i + n - 1) = pat}
    IN  IF hits = {} THEN s
        ELSE LET i == CHOOSE k \in hits : \A m \in hits : k <= m
             IN  SubSeq(s, 1, i - 1) \o SubSeq(s, i + n, Len(s))

\* ------------------------------------------------------------- WHATWG URL
InvalidURL ==
    [ok |-> FALSE, scheme |-> "", host |-> <<>>, path |-> <<>>,
     search |-> <<>>, hash |-> <<>>]

\* The part of a URL text after the authority: path, ?query, #fragment.
PathPart(s)   == SubSeq(s, 1, IndexOfAny(s, {"?", "#"}) - 1)
HashPart(s)   == SubSeq(s, IndexOfAny(s, {"#"}), Len(s))
SearchPart(s) == SubSeq(s, IndexOfAny(s, {"?", "#"}), IndexOfAny(s, {"#"}) - 1)

\* new URL(s): an absolute URL text.  "https://" needs a host and gets the
\* path "/" when it has none; "mailto:" has no host (an opaque path); a text
\* without a scheme is not a URL.
ParseURL(s) ==
    IF s = <<>> THEN InvalidURL
    ELSE IF s[1] = "https://" THEN
        LET rest == Tail(s)
            hEnd == IndexOfAny(rest, {"/", "?", "#"})
            host == SubSeq(rest, 1, hEnd - 1)
            tail == SubSeq(rest, hEnd, Len(rest))
        IN  IF host = <<>> THEN InvalidURL
            ELSE [ok |-> TRUE, scheme |-> "https://", host |-> host,
                  path |-> IF PathPart(tail) = <<>> THEN <<"/">> ELSE PathPart(tail),
                  search |-> SearchPart(tail), hash |-> HashPart(tail)]
    ELSE IF s[1] = "mailto:" THEN
        [ok |-> TRUE, scheme |-> "mailto:", host |-> <<>>,
         path |-> PathPart(Tail(s)), search |-> SearchPart(Tail(s)),
         hash |-> HashPart(Tail(s))]
    ELSE InvalidURL

HasScheme(s) == s # <<>> /\ s[1] \in {"https://", "mailto:"}

\* new URL(href, base): href resolved against base.
ResolveURL(href, base) ==
    IF HasScheme(href) THEN ParseURL(href)
    ELSE
        LET b == ParseURL(base)
        IN  IF ~b.ok THEN InvalidURL
            ELSE IF href = <<>> THEN [b EXCEPT !.hash = <<>>]
            ELSE IF href[1] = "#" THEN [b EXCEPT !.hash = href]
            ELSE IF b.scheme # "https://" THEN InvalidURL
            ELSE IF href[1] = "?" THEN
                [b EXCEPT !.search = SearchPart(href), !.hash = HashPart(href)]
            ELSE IF href[1] = "/" THEN
                [b EXCEPT !.path = PathPart(href), !.search = SearchPart(href),
                          !.hash = HashPart(href)]
            ELSE
                [b EXCEPT !.path = SubSeq(b.path, 1, LastIndexOf(b.path, "/"))
                                      \o PathPart(href),
                          !.search = SearchPart(href), !.hash = HashPart(href)]

\* Mutant: the fragment is kept.
ClearHashKeeps(u) == u

\* url.hash = ''
ClearHash(u) == [u EXCEPT !.hash = <<>>]

\* url.toString()
UrlToString(u) == <<u.scheme>> \o u.host \o u.path \o u.search \o u.hash

Hostname(u) == u.host
Pathname(u) == u.path

normalizeUrl(url) ==
    IF ParseURL(url).ok THEN UrlToString(ClearHash(ParseURL(url))) ELSE url

\* ---------------------------------------------------------- document tree
\* A parsed document is the sequence of its elements in document order; an
\* element names its parent by index (0: no parent).  cls is the set of the
\* words of the class attribute; "" stands for an absent id, role or text.
El(tag, cls, id, role, parent, text) ==
    [tag |-> tag, cls |-> cls, id |-> id, role |-> role, hasHref |-> FALSE,
     href |-> <<>>, parent |-> parent, text |-> text]

A(href, parent, text) ==
    [tag |-> "a", cls |-> {}, id |-> "", role |-> "", hasHref |-> TRUE,
     href |-> href, parent |-> parent, text |-> text]

\* cheerio load(html): the document always has html, head and body; the
\* elements of the markup hang below body.
Load(nodes) ==
    << El("html", {}, "", "", 0, ""), El("head", {}, "", "", 1, ""),
       El("body", {}, "", "", 1, "") >>
    \o [i \in 1..Len(nodes) |->
          [nodes[i] EXCEPT !.parent = IF nodes[i].parent = 0 THEN 3
                                      ELSE nodes[i].parent + 3]]

\* $('a[href]') in document order.
Anchors(doc) == SelectSeq(doc, LAMBDA n : n.tag = "a" /\ n.hasHref)

\* The selectors cleanHtmlContent removes, src/index.ts.
StrictTags ==
    {"nav", "footer", "aside", "script", "style", "iframe", "video", "audio",
     "img", "svg", "canvas", "form", "input", "button", "select", "textarea",
     "link", "meta"}
StrictClasses ==
    {"navigation", "nav", "navbar", "menu", "footer", "sidebar", "aside",
     "social-links", "social-media", "breadcrumbs"}
StrictIds == {"navbar", "navigation", "menu", "header", "footer", "nav"}

\* The selectors cleanHtmlContent removes, src/unnamed/part_000.
LooseTags == {"nav", "header", "footer", "aside", "script", "style"}
LooseClasses ==
    {"navigation", "nav", "navbar", "menu", "header", "footer", "sidebar",
     "aside", "social-links", "social-media", "breadcrumbs"}
LooseIds == {"header", "footer", "nav", "navigation", "menu"}

NoiseRoles == {"navigation", "banner", "contentinfo"}

MatchesStrict(n) ==
    \/ n.tag \in StrictTags
    \/ n.cls \cap StrictClasses # {}
    \/ n.id \in StrictIds
    \/ n.role \in NoiseRoles

MatchesLoose(n) ==
    \/ n.tag \in LooseTags
    \/ n.cls \cap LooseClasses # {}
    \/ n.id \in LooseIds
    \/ n.role \in NoiseRoles

MatchesNoise(n, v) == IF v = "index" THEN MatchesStrict(n) ELSE MatchesLoose(n)

\* Mutant: only the first matching element of the document is removed.
RECURSIVE RemovedFirstOnly(_, _, _)
RemovedFirstOnly(doc, i, v) ==
    IF i = 0 THEN FALSE
    ELSE \/ /\ MatchesNoise(doc[i], v)
            /\ \A j \in 1..(i - 1) : ~MatchesNoise(doc[j], v)
         \/ RemovedFirstOnly(doc, doc[i].parent, v)

\* .remove() takes the matched element and its whole subtree.
RECURSIVE Removed(_, _, _)
Removed(doc, i, v) ==
    IF i = 0 THEN FALSE
    ELSE MatchesNoise(doc[i], v) \/ Removed(doc, doc[i].parent, v)

cleanHtmlContent(doc, v) ==
    LET kept   == {i \in 1..Len(doc) : ~Removed(doc, i, v)}
        idx(i) == Cardinality({j \in kept : j <= i})
        old(k) == CHOOSE i \in kept : idx(i) = k
    IN  [k \in 1..Cardinality(kept) |->
           [doc[old(k)] EXCEPT !.parent = IF doc[old(k)].parent = 0 THEN 0
                                           ELSE idx(doc[old(k)].parent)]]

\* $.html(...) followed by turndownService.turndown(...): the text of the
\* elements that are left, in document order.
RECURSIVE Turndown(_)
Turndown(doc) ==
    IF doc = <<>> THEN <<>>
    ELSE (IF doc[1].text = "" THEN <<>> ELSE <<doc[1].text>>) \o Turndown(Tail(doc))

\* ------------------------------------------------------------ link filter
AssetExtensions == {"jpg", "jpeg", "png", "gif", "svg", "ico", "css", "js"}

\* The regex flag i: the extension is compared without regard to case.
LowerCase(t) ==
    CASE t = "PNG" -> "png"
      [] t = "JS"  -> "js"
      [] OTHER     -> t

\* /\.(jpg|jpeg|png|gif|svg|ico|css|js)$/i.test(href): a test on the href
\* text as written in the page.
IsAssetHref(href) ==
    /\ Len(href) >= 2
    /\ href[Len(href) - 1] = "."
    /\ LowerCase(Last(href)) \in AssetExtensions

\* pathname.replace(/\/?$/, '/')
EnsureTrailingSlash(p) ==
    IF p # <<>> /\ Last(p) = "/" THEN p ELSE p \o <<"/">>

StripWww(host) == ReplaceFirst(host, <<"www", ".">>)

isSameDomain(u, baseDomain, v) ==
    IF v = "index" THEN StripWww(Hostname(u)) = StripWww(baseDomain)
    ELSE Hostname(u) = baseDomain

isUnderBasePath(u, basePath, v) ==
    IF v = "index" THEN StartsWith(EnsureTrailingSlash(Pathname(u)), basePath)
    ELSE TRUE

\* Mutant: a found link is never taken as visited.
SeenAtDiscoveryNever(url, vis) == FALSE

\* The visited test made when a link is found.
SeenAtDiscovery(url, vis) == url \in vis

\* The body of the .each callback for one anchor: the URL pushed on the
\* queue, or <<>> when the anchor pushes nothing.
LinkOffer(href, cur, baseDomain, basePath, vis, v) ==
    IF href = <<>> THEN <<>>
    ELSE IF IsAssetHref(href) THEN <<>>
    ELSE LET u == ResolveURL(href, cur)
         IN  IF ~u.ok THEN <<>>
             ELSE LET normalizedUrl == UrlToString(ClearHash(u))
                  IN  IF /\ isSameDomain(u, baseDomain, v)
                         /\ isUnderBasePath(u, basePath, v)
                         /\ ~SeenAtDiscovery(normalizedUrl, vis)
                      THEN <<normalizedUrl>>
                      ELSE <<>>

RECURSIVE Offers(_, _, _, _, _, _)
Offers(anchors, cur, baseDomain, basePath, vis, v) ==
    IF anchors = <<>> THEN <<>>
    ELSE LinkOffer(anchors[1].href, cur, baseDomain, basePath, vis, v)
         \o Offers(Tail(anchors), cur, baseDomain, basePath, vis, v)

\* ------------------------------------------------------------- aggregator
TitleChunk == <<"# Crawled Website Content", "\n\n">>
HeaderChunk(url) == <<"## ">> \o url \o <<"\n\n">>
ContentChunk(content) == content \o <<"\n\n">>
SeparatorChunk == <<"---", "\n\n">>

\* Mutant: the separator is written between sections only (a join).
RECURSIVE RenderPagesJoined(_)
RenderPagesJoined(ps) ==
    IF ps = <<>> THEN <<>>
    ELSE << HeaderChunk(ps[1].url), ContentChunk(ps[1].content) >>
         \o (IF Len(ps) > 1 THEN <<SeparatorChunk>> ELSE <<>>)
         \o RenderPagesJoined(Tail(ps))

\* The for loop over pages: the text is built by appending chunks; the
\* model keeps the chunks apart, in the order they are appended.
RECURSIVE RenderPages(_)
RenderPages(ps) ==
    IF ps = <<>> THEN <<>>
    ELSE << HeaderChunk(ps[1].url), ContentChunk(ps[1].content), SeparatorChunk >>
         \o RenderPages(Tail(ps))

Render(ps) == <<TitleChunk>> \o RenderPages(ps)

\* ---------------------------------------------------- the site being crawled
\* Seed arguments.
SeedDocs == <<"https://", "a", ".", "com", "/", "docs">>
SeedWww  == <<"https://", "www", ".", "a", ".", "com", "/", "docs", "/", "#", "top">>
SeedRoot == <<"https://", "a", ".", "com">>
SeedBad  == <<"docs">>

\* Command lines (process.argv from index 2 on).
Args ==
    { <<>>, <<SeedBad>>, <<SeedDocs>>, <<SeedRoot>>, <<SeedWww, "docs.md">> }

\* The bodies the site can serve, by name; each is the markup of one page.
Docs ==
    [ e2e |->
        << A(<<"/", "docs", "/", "p">>, 0, "P"),
           A(<<"https://", "other", ".", "com", "/", "b">>, 0, "B") >>,
      chrome |->
        << El("nav", {}, "", "", 0, "Nav"),
           A(<<"/", "docs", "/", "q">>, 1, "Q"),
           El("div", {"menu"}, "", "", 0, "Menu"),
           A(<<"r">>, 3, "R"),
           El("header", {}, "", "", 0, "Header"),
           A(<<"/", "docs", "/", "p", "#", "sec1">>, 5, "P1"),
           A(<<"/", "docs", "/", "p", "#", "sec2">>, 0, "P2"),
           El("p", {}, "", "", 0, "Text") >>,
      assets |->
        << A(<<"/", "docs", "/", "logo", ".", "png">>, 0, "L1"),
           A(<<"/", "docs", "/", "app", ".", "JS">>, 0, "L2"),
           A(<<"/", "docs", "/", "logo", ".", "png", "?", "v=1">>, 0, "L3"),
           A(<<"/", "docs", "/", "logo", ".", "PNG", "#", "fig">>, 0, "L4"),
           A(<<"/", "docs", "/", "p", "#", "x", ".", "js">>, 0, "L5"),
           El("img", {}, "", "", 0, "Img"),
           El("div", {"header"}, "", "", 0, "Hdr"),
           El("div", {}, "sidebar", "", 0, "Side"),
           El("aside", {}, "", "", 0, "Aside"),
           El("form", {}, "", "", 9, "Form") >>,
      scope |->
        << A(<<"/", "blog", "/", "post">>, 0, "Blog"),
           A(<<"/", "docsx", "/", "p">>, 0, "X"),
           A(<<"https://", "www", ".", "a", ".", "com", "/", "docs", "/", "q">>, 0, "W"),
           A(<<"https://", "a", ".", "www", ".", "com", "/", "docs", "/", "z">>, 0, "Z"),
           A(<<"https://">>, 0, "Bad"),
           A(<<"mailto:", "me@a.com">>, 0, "Mail"),
           A(<<>>, 0, "Empty"),
           El("a", {}, "", "", 0, "NoHref") >>,
      back |->
        << A(<<"/", "docs">>, 0, "Up"),
           A(<<"#", "top">>, 0, "Top"),
           A(<<"?", "v=1">>, 0, "V"),
           El("footer", {}, "", "", 0, "Footer"),
           A(<<"/", "docs", "/", "q", "/">>, 4, "Q/"),
           A(<<"/", "docs", "/", "q", "#", "a">>, 0, "Qa") >> ]

DocNames == DOMAIN Docs

\* What fetch can do with a request.
Responses ==
    [status : {"ok"}, html : DocNames \cup {""}]
    \cup [status : {"http_error", "network_error"}, html : {""}]

\* --------------------------------------------------------------- the state
VARIABLES
    pc,            \* "main", "loop", "fetch", "done", "exit"
    variant,       \* which source file runs: "index" or "part000"
    argv,          \* the command line
    exitCode,      \* process.exit code, -1 while none
    outputFile,
    queue, visited, pages, currentUrl,
    normalizedStartUrl, baseDomain, basePath,
    files,         \* every fs.writeFileSync call: [name, text]
    fetchLog,      \* every fetchPage call that returned: [url, status, html]
    claimed,       \* the URLs added to visited, in order
    pushed         \* every queue.push of link discovery: [url, from]

vars ==
    << pc, variant, argv, exitCode, outputFile, queue, visited, pages,
       currentUrl, normalizedStartUrl, baseDomain, basePath, files, fetchLog,
       claimed, pushed >>

crawlVars == << queue, visited, pages, currentUrl, fetchLog, claimed, pushed >>
scopeVars == << normalizedStartUrl, baseDomain, basePath >>
procVars  == << variant, argv, exitCode, outputFile, files >>

Init ==
    /\ pc = "main"
    /\ variant \in {"index", "part000"}
    /\ argv \in Args
    /\ exitCode = -1
    /\ outputFile = ""
    /\ queue = <<>>
    /\ visited = {}
    /\ pages = <<>>
    /\ currentUrl = <<>>
    /\ normalizedStartUrl = <<>>
    /\ baseDomain = <<>>
    /\ basePath = <<>>
    /\ files = <<>>
    /\ fetchLog = <<>>
    /\ claimed = <<>>
    /\ pushed = <<>>

\* ------------------------------------------------------------------- main
MainUsage ==
    /\ pc = "main"
    /\ Len(argv) < 1
    /\ exitCode' = 1
    /\ pc' = "exit"
    /\ UNCHANGED << variant, argv, outputFile, files, crawlVars, scopeVars >>

\* Mutant: the process ends with code 0 on a seed that does not parse.
MainInvalidUrlExitsZero ==
    /\ pc = "main"
    /\ Len(argv) >= 1
    /\ ~ParseURL(argv[1]).ok
    /\ exitCode' = 0
    /\ pc' = "exit"
    /\ UNCHANGED << variant, argv, outputFile, files, crawlVars, scopeVars >>

MainInvalidUrl ==
    /\ pc = "main"
    /\ Len(argv) >= 1
    /\ ~ParseURL(argv[1]).ok
    /\ exitCode' = 1
    /\ pc' = "exit"
    /\ UNCHANGED << variant, argv, outputFile, files, crawlVars, scopeVars >>

\* main calls crawlWebsite, which runs its declarations up to the loop.
MainCrawl ==
    /\ pc = "main"
    /\ Len(argv) >= 1
    /\ ParseURL(argv[1]).ok
    /\ outputFile' = IF Len(argv) >= 2 /\ argv[2] # "" THEN argv[2] ELSE "output.md"
    /\ visited' = {}
    /\ normalizedStartUrl' = normalizeUrl(argv[1])
    /\ queue' = << normalizeUrl(argv[1]) >>
    /\ baseDomain' = Hostname(ParseURL(normalizeUrl(argv[1])))
    /\ basePath' = IF variant = "index"
                   THEN EnsureTrailingSlash(Pathname(ParseURL(normalizeUrl(argv[1]))))
                   ELSE <<>>
    /\ pages' = <<>>
    /\ pc' = "loop"
    /\ UNCHANGED << variant, argv, exitCode, files, currentUrl, fetchLog,
                    claimed, pushed >>

\* --------------------------------------------------------- the crawl loop
\* Mutant: the dequeue test is lost, every dequeued URL is taken as new.
AlreadyVisitedNever(url) == FALSE

\* The visited test made when a URL leaves the queue.
AlreadyVisited(url) == url \in visited

\* Mutant: the front of the queue is read but not removed.
ShiftKeeps(q) == q

\* queue.shift()
Shift(q) == Tail(q)
Front(q) == Head(q)

DequeueSkip ==
    /\ pc = "loop"
    /\ queue # <<>>
    /\ AlreadyVisited(Front(queue))
    /\ queue' = Shift(queue)
    /\ UNCHANGED << pc, visited, pages, currentUrl, fetchLog, claimed, pushed,
                    scopeVars, procVars >>

\* Mutant: the dequeued URL is not recorded.
MarkVisitedForgets(vis, url) == vis

\* Mutant: visited is replaced by the dequeued URL alone.
MarkVisitedOnly(vis, url) == {url}

MarkVisited(vis, url) == vis \cup {url}

DequeueClaim ==
    /\ pc = "loop"
    /\ queue # <<>>
    /\ ~AlreadyVisited(Front(queue))
    /\ queue' = Shift(queue)
    /\ currentUrl' = Front(queue)
    /\ visited' = MarkVisited(visited, Front(queue))
    /\ claimed' = Append(claimed, Front(queue))
    /\ pc' = "fetch"
    /\ UNCHANGED << pages, fetchLog, pushed, scopeVars, procVars >>

\* The site still answers: the request in flight is one of the first MaxPages.
SiteUp == Len(fetchLog) < MaxPages

\* fetchPage: the text of a 2xx response, null otherwise.
fetchPage(resp) ==
    IF resp.status = "ok" THEN [null |-> FALSE, text |-> resp.html]
    ELSE [null |-> TRUE, text |-> ""]

\* !html
Falsy(html) == html.null \/ html.text = ""

Logged(resp) == [url |-> currentUrl, status |-> resp.status, html |-> resp.html]

\* fetchPage returned null or an empty text: "if (!html) continue".
FetchNothing(resp) ==
    /\ pc = "fetch"
    /\ resp.status # "http_error" => SiteUp
    /\ Falsy(fetchPage(resp))
    /\ fetchLog' = Append(fetchLog, Logged(resp))
    /\ pc' = "loop"
    /\ UNCHANGED << queue, visited, pages, currentUrl, claimed, pushed,
                    scopeVars, procVars >>

\* Mutant: the anchors are read after the cleaner has run.
LinkSourceCleaned(doc, v) == cleanHtmlContent(doc, v)

\* The tree $('a[href]') runs on.
LinkSource(doc, v) == IF v = "index" THEN doc ELSE cleanHtmlContent(doc, v)

\* Mutant: pages.unshift instead of pages.push.
AppendPageInFront(ps, page) == <<page>> \o ps

AppendPage(ps, page) == Append(ps, page)
Enqueue(q, urls) == q \o urls

\* fetchPage returned markup: the rest of the loop body runs to its end.
FetchPage(resp) ==
    /\ pc = "fetch"
    /\ resp.status = "ok"
    /\ SiteUp
    /\ ~Falsy(fetchPage(resp))
    /\ LET doc     == Load(Docs[fetchPage(resp).text])
           cleaned == cleanHtmlContent(doc, variant)
           offers  == Offers(Anchors(LinkSource(doc, variant)), currentUrl,
                             baseDomain, basePath, visited, variant)
       IN  /\ queue' = Enqueue(queue, offers)
           /\ pushed' = pushed \o [i \in 1..Len(offers) |->
                                     [url |-> offers[i], from |-> Len(fetchLog) + 1]]
           /\ pages' = AppendPage(pages, [url |-> currentUrl,
                                          content |-> Turndown(cleaned)])
    /\ fetchLog' = Append(fetchLog, Logged(resp))
    /\ pc' = "loop"
    /\ UNCHANGED << visited, currentUrl, claimed, scopeVars, procVars >>

\* Mutant: the text is written while URLs are still waiting in the queue.
WriteOutputEarly ==
    /\ pc = "loop"
    /\ files' = Append(files, [name |-> outputFile, text |-> Render(pages)])
    /\ pc' = "done"
    /\ UNCHANGED << variant, argv, exitCode, outputFile, crawlVars, scopeVars >>

\* The loop has ended: the text is rendered and written.
WriteOutput ==
    /\ pc = "loop"
    /\ queue = <<>>
    /\ files' = Append(files, [name |-> outputFile, text |-> Render(pages)])
    /\ pc' = "done"
    /\ UNCHANGED << variant, argv, exitCode, outputFile, crawlVars, scopeVars >>

Next ==
    \/ MainUsage
    \/ MainInvalidUrl
    \/ MainCrawl
    \/ DequeueSkip
    \/ DequeueClaim
    \/ \E resp \in Responses : FetchNothing(resp)
    \/ \E resp \in Responses : FetchPage(resp)
    \/ WriteOutput

Spec == Init /\ [][Next]_vars

\* The program is one sequential thread that never idles: whenever a step
\* is possible one is taken, and every fetch returns.
FairSpec == Spec /\ WF_vars(Next)

\* ==================================================================== claims
PageUrls == [i \in 1..Len(pages) |-> pages[i].url]
PushedUrls == [i \in 1..Len(pushed) |-> pushed[i].url]

FetchCount(url) == Cardinality({i \in 1..Len(fetchLog) : fetchLog[i].url = url})
PushCount(url)  == Cardinality({i \in 1..Len(pushed) : pushed[i].url = url})
PageCount(url)  == Cardinality({i \in 1..Len(pages) : pages[i].url = url})

\* The k-th fetch returned 2xx.
FetchOk(k) == fetchLog[k].status = "ok"
\* The k-th fetch returned markup that the loop body went on to process.
Processed(k) == FetchOk(k) /\ fetchLog[k].html # ""

\* visited as it was while the k-th fetched page was processed.
VisitedAt(k) == {claimed[i] : i \in 1..k}

\* The targets of the anchors of the k-th fetched page, read from the tree as
\* parsed, that pass the asset filter and the scope test of the variant.
LinksOn(k) ==
    Range(Offers(Anchors(Load(Docs[fetchLog[k].html])), fetchLog[k].url,
                 baseDomain, basePath, {}, variant))

RECURSIVE ReachClosure(_)
ReachClosure(R) ==
    LET more == UNION {LinksOn(k) : k \in {j \in 1..Len(fetchLog) :
                                              Processed(j) /\ fetchLog[j].url \in R}}
    IN  IF more \subseteq R THEN R ELSE ReachClosure(R \cup more)

\* The URLs reachable from the seed through links on processed pages.
Reachable == ReachClosure({normalizedStartUrl})

\* The host with a leading "www." label taken off.
StripLeadingWww(host) ==
    IF StartsWith(host, <<"www", ".">>) THEN SubSeq(host, 3, Len(host)) ELSE host

\* The path ends in a static-asset extension.
IsAssetPath(path) ==
    /\ Len(path) >= 2
    /\ path[Len(path) - 1] = "."
    /\ LowerCase(Last(path)) \in AssetExtensions

\* C1: fetchPage is called at most once per normalized URL; a URL is in
\* visited before its fetch begins, and a dequeued URL that is already in
\* visited is dropped without a fetch.
C1_FetchedAtMostOnce ==
    /\ \A i, j \in 1..Len(fetchLog) : fetchLog[i].url = fetchLog[j].url => i = j
    /\ \A i \in 1..Len(fetchLog) : fetchLog[i].url \in visited
    /\ pc = "fetch" => /\ currentUrl \in visited
                       /\ FetchCount(currentUrl) = 0

\* A URL that was offered to the queue more than once and fetched once.
C1_Witness ==
    /\ pc = "done"
    /\ \E k \in 1..Len(fetchLog) :
          /\ PushCount(fetchLog[k].url) >= 2
          /\ FetchCount(fetchLog[k].url) = 1

\* C2: no two entries of pages have the same url, nor two urls that differ
\* only in their fragment.
C2_Dedup ==
    \A i, j \in 1..Len(pages) :
        i # j => /\ pages[i].url # pages[j].url
                 /\ normalizeUrl(pages[i].url) # normalizeUrl(pages[j].url)

\* A page that was linked through two hrefs differing in the fragment only
\* and from two pages, and is in pages.
C2_Witness ==
    \E i \in 1..Len(pages) :
        /\ \E a, b \in 1..Len(pushed) :
              /\ pushed[a].url = pages[i].url
              /\ pushed[b].url = pages[i].url
              /\ pushed[a].from # pushed[b].from
        /\ \E k \in 1..Len(fetchLog) :
              /\ Processed(k)
              /\ \E m, n \in 1..Len(Docs[fetchLog[k].html]) :
                    LET x == Docs[fetchLog[k].html][m]
                        y == Docs[fetchLog[k].html][n]
                    IN  /\ x.hasHref /\ y.hasHref
                        /\ x.href # y.href
                        /\ ResolveURL(x.href, fetchLog[k].url).ok
                        /\ ResolveURL(y.href, fetchLog[k].url).ok
                        /\ UrlToString(ClearHash(ResolveURL(x.href, fetchLog[k].url)))
                              = pages[i].url
                        /\ UrlToString(ClearHash(ResolveURL(y.href, fetchLog[k].url)))
                              = pages[i].url

\* C3 (as claimed): in src/index.ts every URL pushed by link discovery, and
\* every URL fetched other than the seed, has the seed's hostname up to a
\* leading "www." and a path under basePath.
C3_ScopeExclusion ==
    variant = "index" =>
        \A url \in Range(PushedUrls) \cup
                   {fetchLog[k].url : k \in 2..Len(fetchLog)} :
            /\ StripLeadingWww(Hostname(ParseURL(url))) = StripLeadingWww(baseDomain)
            /\ StartsWith(EnsureTrailingSlash(Pathname(ParseURL(url))), basePath)

\* C3, the part that holds: every pushed URL lies under basePath.
C3_PathScope ==
    variant = "index" =>
        \A url \in Range(PushedUrls) :
            StartsWith(EnsureTrailingSlash(Pathname(ParseURL(url))), basePath)

\* C4 (as claimed): no URL whose path ends in a static-asset extension is
\* ever pushed on the queue.
C4_AssetExclusion ==
    \A i \in 1..Len(pushed) : ~IsAssetPath(Pathname(ParseURL(pushed[i].url)))

\* C5 (as claimed): at the end of the crawl a URL whose fetch failed is in
\* visited, was fetched once, is not in pages, and every other reachable URL
\* whose own fetch returned 2xx is in pages.
C5_FetchFailureTolerance ==
    (variant = "index" /\ pc = "done") =>
        \A k \in 1..Len(fetchLog) :
            ~FetchOk(k) =>
                /\ fetchLog[k].url \in visited
                /\ FetchCount(fetchLog[k].url) = 1
                /\ PageCount(fetchLog[k].url) = 0
                /\ \A j \in 1..Len(fetchLog) :
                      (fetchLog[j].url \in Reachable /\ FetchOk(j))
                          => PageCount(fetchLog[j].url) = 1

\* C5, the part that holds: a failed URL is fetched once and never in pages,
\* and every reachable URL whose fetch returned markup is in pages.
C5_FailedUrlDropped ==
    (variant = "index" /\ pc = "done") =>
        \A k \in 1..Len(fetchLog) :
            ~FetchOk(k) =>
                /\ fetchLog[k].url \in visited
                /\ FetchCount(fetchLog[k].url) = 1
                /\ PageCount(fetchLog[k].url) = 0
                /\ \A j \in 1..Len(fetchLog) :
                      (fetchLog[j].url \in Reachable /\ Processed(j))
                          => PageCount(fetchLog[j].url) = 1

\* C6 (as claimed): every URL whose fetch returned 2xx, whatever the body,
\* has exactly one entry in pages.
C6_PagePerOkFetch ==
    \A k \in 1..Len(fetchLog) : FetchOk(k) => PageCount(fetchLog[k].url) = 1

\* C6, the part that holds: an entry of pages is never changed or removed.
C6_PagesAppendOnly ==
    [][Len(pages') >= Len(pages) /\ SubSeq(pages', 1, Len(pages)) = pages]_vars

\* C7 (as claimed): when the loop of src/index.ts has ended every reachable
\* URL is in visited and, if its fetch returned 2xx, in pages; a seed page
\* with one link in scope and one out of scope gives exactly two pages.
C7_ExhaustiveCrawl ==
    (variant = "index" /\ pc = "done") =>
        /\ Reachable \subseteq visited
        /\ \A k \in 1..Len(fetchLog) :
              (fetchLog[k].url \in Reachable /\ FetchOk(k))
                  => PageCount(fetchLog[k].url) = 1
        /\ (\A k \in 1..Len(fetchLog) : fetchLog[k].html = "e2e")
              => /\ Len(pages) = 2
                 /\ pages[1].url = normalizedStartUrl
                 /\ \A k \in 1..Len(fetchLog) :
                       Hostname(ParseURL(fetchLog[k].url)) # <<"other", ".", "com">>

\* C7, the part that holds: every reachable URL is in visited, and in pages
\* if its fetch returned markup.
C7_ExhaustiveUpToEmptyBodies ==
    (variant = "index" /\ pc = "done") =>
        /\ Reachable \subseteq visited
        /\ \A k \in 1..Len(fetchLog) :
              (fetchLog[k].url \in Reachable /\ Processed(k))
                  => PageCount(fetchLog[k].url) = 1

\* The target of anchor n of the k-th fetched page, <<>> when the href is
\* empty, ends in an asset extension, does not parse or is out of scope.
OfferedTarget(k, href) ==
    LinkOffer(href, fetchLog[k].url, baseDomain, basePath, {}, "index")

PushedFrom(k, url) ==
    \E j \in 1..Len(pushed) : pushed[j].url = url /\ pushed[j].from = k

RECURSIVE FirstOccurrences(_)
FirstOccurrences(s) ==
    IF s = <<>> THEN <<>>
    ELSE LET front == FirstOccurrences(SubSeq(s, 1, Len(s) - 1))
         IN  IF Last(s) \in Range(front) THEN front ELSE Append(front, Last(s))

\* C9: the entries of pages are in the order in which their URLs were taken
\* from the queue, which is the order of their first arrival in the FIFO
\* queue starting with the seed; the seed's entry, if any, is the first.
C9_PagesInDequeueOrder ==
    /\ PageUrls = SelectSeq(claimed, LAMBDA u : u \in Range(PageUrls))
    /\ pc # "main" =>
          LET arrival == FirstOccurrences(<<normalizedStartUrl>> \o PushedUrls)
          IN  /\ Len(claimed) <= Len(arrival)
              /\ claimed = SubSeq(arrival, 1, Len(claimed))
    /\ \A i \in 1..Len(pages) : pages[i].url = normalizedStartUrl => i = 1

\* Two pages, the second of which was offered again before it was dequeued.
C9_Witness ==
    /\ pc = "done"
    /\ Len(pages) >= 2
    /\ pages[1].url = normalizedStartUrl
    /\ PushCount(pages[2].url) >= 2
    /\ Len(claimed) >= 3

\* C10: the written text is the title followed, for each entry of pages in
\* order, by a "## url" header, the entry's content and a "---" separator.
C10_Aggregation ==
    pc = "done" =>
        /\ Len(files) = 1
        /\ LET out == files[1].text
           IN  /\ Len(out) = 1 + 3 * Len(pages)
               /\ out[1] = <<"# Crawled Website Content", "\n\n">>
               /\ \A i \in 1..Len(pages) :
                     /\ out[3 * i - 1] = <<"## ">> \o pages[i].url \o <<"\n\n">>
                     /\ out[3 * i] = pages[i].content \o <<"\n\n">>
                     /\ out[3 * i + 1] = <<"---", "\n\n">>

\* A text written for two pages.
C10_Witness ==
    /\ pc = "done"
    /\ Len(pages) = 2
    /\ Len(files) = 1
    /\ Len(files[1].text) = 7

\* The noise taxonomy as the specification lists it: chrome elements, noise
\* roles, the conventional class and id names, script, style, link and meta,
\* media and form elements.
TaxonomyTags ==
    {"nav", "header", "footer", "aside", "script", "style", "link", "meta",
     "img", "svg", "canvas", "audio", "video", "iframe", "form", "input",
     "button", "select", "textarea"}
TaxonomyNames ==
    {"navigation", "menu", "header", "footer", "sidebar", "breadcrumbs",
     "social-links"}

InTaxonomy(n) ==
    \/ n.tag \in TaxonomyTags
    \/ n.role \in NoiseRoles
    \/ n.cls \cap TaxonomyNames # {}
    \/ n.id \in TaxonomyNames

\* The tree that was serialized for the page fetched last.
LastFetch == Len(fetchLog)
LastCleaned == cleanHtmlContent(Load(Docs[fetchLog[LastFetch].html]), variant)

\* C11 (as claimed): in src/index.ts the tree serialized for conversion holds
\* no node of the noise taxonomy.
C11_NoNoiseLeft ==
    (variant = "index" /\ LastFetch > 0 /\ Processed(LastFetch)) =>
        \A i \in 1..Len(LastCleaned) : ~InTaxonomy(LastCleaned[i])

\* C11, the part that holds: no node is left that one of the selectors of
\* the variant's cleanHtmlContent matches.
C11_NoSelectedNodeLeft ==
    (LastFetch > 0 /\ Processed(LastFetch)) =>
        \A i \in 1..Len(LastCleaned) : ~MatchesNoise(LastCleaned[i], variant)

\* The seed argument is there and is the text of a URL: it has a scheme and,
\* for https, a host.
SeedGiven == Len(argv) >= 1
SeedIsUrl ==
    /\ SeedGiven
    /\ argv[1] # <<>>
    /\ \/ argv[1][1] = "mailto:"
       \/ /\ argv[1][1] = "https://"
          /\ Len(argv[1]) >= 2
          /\ argv[1][2] \notin {"/", "?", "#"}

\* The seed text up to its fragment.
TextBeforeHash(t) == SubSeq(t, 1, IndexOfAny(t, {"#"}) - 1)

\* C12: a missing or invalid seed ends the process with code 1 before
\* crawlWebsite runs: nothing is fetched, queued or written; a valid seed
\* never exits so, its crawl starts with the queue holding the seed without
\* its fragment, and the output file is output.md unless one is named.
C12_InvalidSeedIsFatal ==
    /\ ~SeedIsUrl =>
          /\ pc \in {"main", "exit"}
          /\ fetchLog = <<>> /\ files = <<>> /\ queue = <<>>
          /\ visited = {} /\ claimed = <<>> /\ pages = <<>>
    /\ pc = "exit" => (~SeedIsUrl /\ exitCode = 1)
    /\ SeedIsUrl => (pc # "exit" /\ exitCode = -1)
    /\ (pc = "loop" /\ claimed = <<>>) =>
          /\ Len(queue) = 1
          /\ TextBeforeHash(queue[1]) = queue[1]
          /\ StartsWith(queue[1], TextBeforeHash(argv[1]))
          /\ Len(queue[1]) <= Len(TextBeforeHash(argv[1])) + 1
    /\ (pc \notin {"main", "exit"} /\ Len(argv) < 2) => outputFile = "output.md"
    /\ (pc \notin {"main", "exit"} /\ Len(argv) >= 2) => outputFile = argv[2]

\* The process has ended on a seed argument that is no URL.
C12_Witness ==
    /\ pc = "exit"
    /\ SeedGiven
    /\ exitCode = 1

\* C13: the crawl loop ends, and ends only on an empty queue: every run
\* reaches the written output (or the exit of main), and the step that leaves
\* the loop is taken with the queue empty.
C13_Termination ==
    /\ <>(pc \in {"done", "exit"})
    /\ [](pc = "done" => queue = <<>>)
    /\ [][(pc = "loop" /\ pc' = "done") => queue = <<>>]_vars

\* A crawl that ended after three fetches and a discarded duplicate.
C13_Witness ==
    /\ pc = "done"
    /\ Len(fetchLog) >= 3
    /\ Len(pushed) + 1 > Len(claimed)

\* URL texts for normalization: every combination of these parts.
SamplePaths == { <<>>, <<"/">>, <<"/", "x">>, <<"/", "x", "/">> }
SampleSearches == { <<>>, <<"?", "v=1">>, <<"?", "v=2">> }
SampleHashes == { <<>>, <<"#", "sec1">>, <<"#", "sec2">> }

\* The texts without a fragment.
SampleUrls ==
    { <<"https://", "a", ".", "com">> \o p \o s :
          p \in SamplePaths, s \in SampleSearches }

\* The key link discovery computes for an href found on the page at base.
DiscoveryKey(href, base) == UrlToString(ClearHash(ResolveURL(href, base)))

\* Fragment equivalence and idempotence, at the seed and at discovery.
FragmentEquivalence ==
    \A t \in SampleUrls :
        /\ \A f \in SampleHashes :
              /\ normalizeUrl(t \o f) = normalizeUrl(t)
              /\ DiscoveryKey(t \o f, SeedDocs) = normalizeUrl(t)
              /\ "#" \notin Range(normalizeUrl(t \o f))
        /\ normalizeUrl(normalizeUrl(t)) = normalizeUrl(t)
        /\ StartsWith(normalizeUrl(t), <<"https://", "a", ".", "com">>)

\* Every key the crawl holds is free of a fragment and normalizes to itself.
KeysAreNormalized ==
    \A url \in visited \cup Range(queue) \cup Range(PushedUrls) :
        /\ "#" \notin Range(url)
        /\ normalizeUrl(url) = url

OnlyRootSlashDiffers(t, u) ==
    \E s \in SampleSearches :
        {t, u} = { <<"https://", "a", ".", "com">> \o s,
                   <<"https://", "a", ".", "com", "/">> \o s }

CleanIsFixed(t, v) ==
    /\ cleanHtmlContent(t, v) = t
    /\ \A i \in 1..Len(t) : ~MatchesNoise(t[i], v)

\* C15: cleaning an already cleaned tree removes no further node, in the
\* stricter profile (index) and in the looser one (part000): for every
\* document of the site under both profiles, and for the tree of every page
\* the loop has just cleaned.
C15_CleanIdempotent ==
    /\ pc = "main" =>
          \A d \in DocNames : \A v \in {"index", "part000"} :
              CleanIsFixed(cleanHtmlContent(Load(Docs[d]), v), v)
    /\ (LastFetch > 0 /\ Processed(LastFetch)) => CleanIsFixed(LastCleaned, variant)

\* A page has been cleaned, the cleaning took away several selected
\* elements with elements nested in them, and something is left.
C15_Witness ==
    /\ LastFetch > 0
    /\ Processed(LastFetch)
    /\ LET t == Load(Docs[fetchLog[LastFetch].html])
       IN  /\ Cardinality({i \in 1..Len(t) : MatchesNoise(t[i], variant)}) >= 2
           /\ \E i \in 1..Len(t) :
                 ~MatchesNoise(t[i], variant) /\ Removed(t, i, variant)
           /\ Len(LastCleaned) > 3
           /\ Len(LastCleaned) < Len(t)

\* C16 (as claimed): each key is appended to the queue at most once over the
\* crawl, the seed's own entry counted: the queue never holds two copies of
\* a key, and a key that was dequeued is never enqueued again.
C16_EnqueuedAtMostOnce ==
    /\ \A i, j \in 1..Len(queue) : queue[i] = queue[j] => i = j
    /\ \A j \in 1..Len(pushed) :
          /\ PushCount(pushed[j].url) = 1
          /\ pc # "main" => pushed[j].url # normalizedStartUrl
          /\ pushed[j].url \notin VisitedAt(pushed[j].from)

\* C16 (amended): a key is never enqueued once it is in visited, that is once
\* a copy of it was dequeued and claimed; a key that is not yet visited may be
\* enqueued again by every anchor that links to it, and of the copies in the
\* queue only the first one dequeued is fetched.
C16_NeverEnqueuedOnceVisited ==
    /\ \A j \in 1..Len(pushed) : pushed[j].url \notin VisitedAt(pushed[j].from)
    /\ \A i \in 1..Len(queue) :
          queue[i] \in Range(PushedUrls) \cup {normalizedStartUrl}
    /\ \A url \in Range(PushedUrls) :
          /\ FetchCount(url) <= 1
          /\ (url \in visited /\ pc = "loop") =>
                 PushCount(url) =
                   Cardinality({j \in 1..Len(pushed) :
                       /\ pushed[j].url = url
                       /\ \E c \in 1..Len(claimed) :
                             claimed[c] = url /\ pushed[j].from < c})

\* The crawl has ended; some key was enqueued twice before it was dequeued
\* and was fetched once.
C16_Witness ==
    /\ pc = "done"
    /\ \E url \in Range(PushedUrls) : PushCount(url) >= 2 /\ FetchCount(url) = 1

\* The hosts of the targets the anchors of the k-th fetched page resolve to.
CandidateHosts(k) ==
    LET t == Load(Docs[fetchLog[k].html])
    IN  { Hostname(ResolveURL(t[n].href, fetchLog[k].url)) :
            n \in { m \in 1..Len(t) :
                      /\ t[m].hasHref
                      /\ t[m].href # <<>>
                      /\ ResolveURL(t[m].href, fetchLog[k].url).ok } }

\* C17: in src/index.ts a candidate passes the domain check iff its hostname
\* and the seed's are equal once a leading "www." label is taken off each;
\* a "www." elsewhere in a hostname is not stripped, and every key pushed on
\* the queue has a hostname that matches the seed's in that sense.
C17_DomainCheck ==
    (variant = "index" /\ pc # "main") =>
        /\ \A k \in 1..Len(fetchLog) :
              Processed(k) =>
                  \A h \in CandidateHosts(k) :
                      isSameDomain([host |-> h], baseDomain, "index")
                          <=> StripLeadingWww(h) = StripLeadingWww(baseDomain)
        /\ \A j \in 1..Len(pushed) :
              StripLeadingWww(Hostname(ParseURL(pushed[j].url)))
                  = StripLeadingWww(baseDomain)

\* The key part_000 computes for an href found on the k-th fetched page, or
\* <<>> when the href is an asset, does not resolve or is off the seed's host.
OfferedTargetPart000(k, href) ==
    LinkOffer(href, fetchLog[k].url, baseDomain, basePath, {}, "part000")

\* C18: in src/unnamed/part_000 every a[href] of the parsed document of a
\* processed page whose target is on the seed's host, is no asset and is not
\* yet visited is pushed on the queue, the anchors nested in elements that
\* cleanHtmlContent removes included.
C18_DiscoverySeesAllAnchors ==
    variant = "part000" =>
        \A k \in 1..Len(fetchLog) :
            Processed(k) =>
                LET t == Load(Docs[fetchLog[k].html])
                IN  \A n \in 1..Len(t) :
                        (/\ t[n].hasHref
                         /\ OfferedTargetPart000(k, t[n].href) # <<>>
                         /\ OfferedTargetPart000(k, t[n].href)[1] \notin VisitedAt(k))
                            => PushedFrom(k, OfferedTargetPart000(k, t[n].href)[1])

\* C19: in every reachable state of the crawl every url in pages is in
\* visited and had a fetch whose markup was processed, and pages is no longer
\* than visited is large; in every step visited keeps its elements, pages
\* changes by appending at its end only, and baseDomain and basePath, once
\* computed from the seed, stay as they are.
C19_GrowOnly ==
    /\ [](/\ \A i \in 1..Len(pages) :
                /\ pages[i].url \in visited
                /\ \E k \in 1..Len(fetchLog) :
                      Processed(k) /\ fetchLog[k].url = pages[i].url
          /\ Len(pages) <= Cardinality(visited))
    /\ [][/\ visited \subseteq visited'
          /\ Len(pages) <= Len(pages')
          /\ SubSeq(pages', 1, Len(pages)) = pages
          /\ Len(pages') <= Len(pages) + 1
          /\ pc # "main" =>
                 /\ baseDomain' = baseDomain
                 /\ basePath' = basePath
                 /\ normalizedStartUrl' = normalizedStartUrl]_vars

\* The crawl has ended with several pages, fewer pages than visited keys,
\* and a scope computed from a seed with a path.
C19_Witness ==
    /\ pc = "done"
    /\ Len(pages) >= 2
    /\ Len(pages) < Cardinality(visited)
    /\ basePath = <<"/", "docs", "/">>

\* C20: the output file is written once, in the step that leaves the loop
\* with the queue empty; the text is the rendering of pages as they then
\* are; after it nothing is fetched, enqueued or appended to pages; while
\* the crawl is under way, and in a run that exits before it, no file holds
\* any output.
C20_WrittenOnceAtEnd ==
    /\ [](/\ Len(files) <= 1
          /\ (pc = "done") <=> (Len(files) = 1)
          /\ files # <<>> =>
                /\ queue = <<>>
                /\ files[1] = [name |-> outputFile, text |-> Render(pages)])
    /\ [][/\ files' # files =>
                /\ pc = "loop" /\ queue = <<>> /\ files = <<>>
                /\ pages' = pages
          /\ files # <<>> =>
                /\ fetchLog' = fetchLog
                /\ queue' = queue
                /\ pushed' = pushed
                /\ pages' = pages
                /\ files' = files]_vars

\* The file is written after a crawl in which a request failed, a key was
\* skipped at dequeue time and several pages were kept.
C20_Witness ==
    /\ Len(files) = 1
    /\ Len(pages) >= 2
    /\ Len(fetchLog) > Len(pages)
    /\ Len(pushed) + 1 > Len(claimed)

====
